---- MODULE Spec2Model ----
(***************************************************************************)
(* Model of server.py: the /get_news handler of the AI News Assistant,     *)
(* with its provider call (call_huggingface_router), its offline           *)
(* generator (generate_ai_news) and its translation step (translate_text). *)
(*                                                                         *)
(* Text is modelled by TLA+ strings, so lengths, prefixes and equality of  *)
(* texts are computed, not assumed.  Two characters of the source are not  *)
(* ASCII and are written with a one-character stand-in each: the bullet    *)
(* U+2022 is "*" and the right-to-left mark U+200F is "^".                 *)
(***************************************************************************)
EXTENDS Integers, Sequences, FiniteSets, TLC

VARIABLES
    HF_API_KEY,         \* module global read from the environment at start-up
    now,                \* wall clock, in minutes
    pc,                 \* position of the handler: idle, provider, select, translate, done
    request,            \* the HTTP request being handled
    country, topic, original_language, needs_translation,  \* locals of get_news
    ai_content, ai_provider,                               \* locals of get_news
    result,             \* the dict built at lines 313-324
    response,           \* what the handler returned: [status, json]
    hfResp,             \* outcome of requests.post in call_huggingface_router
    trResp,             \* outcome of requests.get in translate_text
    hfAttempts,         \* number of requests.post calls made for this request
    fallbackCalls,      \* number of generate_ai_news calls made for this request
    trCalls,            \* number of translate_text calls made for this request
    lastContent         \* the content last selected, with its fingerprint and minute;
                        \* dropped when a request for another fingerprint arrives

vars == <<HF_API_KEY, now, pc, request, country, topic, original_language,
          needs_translation, ai_content, ai_provider, result, response,
          hfResp, trResp, hfAttempts, fallbackCalls, trCalls, lastContent>>

-----------------------------------------------------------------------------
(* Bounds *)

\* the clock runs over 0..MaxClock minutes
MaxClock == 1
\* provider texts have lengths within ExtraLen of the acceptance threshold
ExtraLen == 1
\* the random module runs one of its first MaxRand + 1 streams
MaxRand == 1

-----------------------------------------------------------------------------
(* Python values *)

\* Python's None, where the other values of the variable are strings
None == "<None>"

\* bool(s) for s a string or None
Truthy(s) == s # None /\ s # ""

\* s.startswith(p)
StartsWith(s, p) == Len(s) >= Len(p) /\ SubSeq(s, 1, Len(p)) = p

UpperChars == "ABCDEFGHIJKLMNOPQRSTUVWXYZ"
LowerChars == "abcdefghijklmnopqrstuvwxyz"

LowerChar(c) ==
    IF \E i \in 1..26 : SubSeq(UpperChars, i, i) = c
    THEN LET i == CHOOSE j \in 1..26 : SubSeq(UpperChars, j, j) = c
         IN  SubSeq(LowerChars, i, i)
    ELSE c

RECURSIVE Lower(_)
\* s.lower()
Lower(s) == IF s = "" THEN "" ELSE LowerChar(SubSeq(s, 1, 1)) \o Lower(Tail(s))

RECURSIVE Rep(_, _)
\* s * n
Rep(s, n) == IF n = 0 THEN "" ELSE s \o Rep(s, n - 1)

RECURSIVE Join(_, _)
\* sep.join(parts)
Join(sep, parts) ==
    IF parts = << >> THEN ""
    ELSE IF Len(parts) = 1 THEN parts[1]
    ELSE parts[1] \o sep \o Join(sep, Tail(parts))

\* d.get(k, default) for a JSON object d
Get(d, k, default) == IF k \in DOMAIN d THEN d[k] ELSE default

-----------------------------------------------------------------------------
(* Constants of server.py *)

MODEL_NAME == "openai/gpt-oss-120b"
FallbackProvider == "AI News Generator"
HfProvider == "OpenAI gpt-oss-120b"
GeneratorModel == "High-Quality Generator"
RLM == "^"
Bullet == "*"
MinLen == 100
max_retries == 2

-----------------------------------------------------------------------------
(* The random module and the clock *)

\* random.choice(seq), r being the index drawn
Choice(seq, r) == seq[r + 1]

\* seq without its i-th element
RemoveAt(seq, i) == SubSeq(seq, 1, i - 1) \o SubSeq(seq, i + 1, Len(seq))

RECURSIVE Sample(_, _, _)
\* random.sample(pool, k): k elements without replacement, in selection order;
\* r encodes the draws in mixed radix, least significant first
Sample(pool, k, r) ==
    IF k = 0 THEN << >>
    ELSE LET j == (r % Len(pool)) + 1
         IN  <<pool[j]>> \o Sample(RemoveAt(pool, j), k - 1, r \div Len(pool))

\* the number of outcomes of random.sample(pool of n, k)
RECURSIVE SampleCount(_, _)
SampleCount(n, k) == IF k = 0 THEN 1 ELSE n * SampleCount(n - 1, k - 1)

Digit(d) == SubSeq("0123456789", d + 1, d + 1)
TwoDigits(n) == Digit((n \div 10) % 10) \o Digit(n % 10)

\* datetime.datetime.now().strftime('%Y-%m-%d %H:%M') at minute t of the clock
Timestamp(t) == "2025-01-01 " \o TwoDigits((t \div 60) % 24) \o ":" \o TwoDigits(t % 60)

-----------------------------------------------------------------------------
(* generate_ai_news *)

country_templates(c, t) ==
    CASE c = "Iraq" -> <<
           "Recent developments in Iraq's " \o Lower(t) \o " sector show promising growth, with new initiatives focusing on economic diversification and regional cooperation.",
           "Iraq continues to make strides in " \o Lower(t) \o ", with international partnerships strengthening and local innovation driving progress across multiple sectors." >>
      [] c = "Syria" -> <<
           "Despite ongoing challenges, Syria reports gradual improvements in " \o Lower(t) \o ", with reconstruction efforts gaining momentum and international aid supporting development.",
           "Syria's " \o Lower(t) \o " landscape is evolving, with new opportunities emerging in key areas and regional cooperation playing an increasingly important role." >>
      [] c = "Kurdistan Region" -> <<
           "The Kurdistan Region demonstrates strong progress in " \o Lower(t) \o ", with innovative approaches to development and growing international investment.",
           "As a hub for regional cooperation, the Kurdistan Region's " \o Lower(t) \o " initiatives are attracting attention for their effectiveness and strategic vision." >>
      [] c = "Turkey" -> <<
           "Turkey's dynamic " \o Lower(t) \o " sector continues to expand, with technological innovation and strategic partnerships driving economic growth.",
           "Recent developments in Turkey's " \o Lower(t) \o " indicate robust growth, positioning the country as a key regional player in emerging markets." >>
      [] c = "Global" -> <<
           "Global developments in " \o Lower(t) \o " show interconnected progress, with international cooperation and technological advancement driving positive change worldwide.",
           "Across the globe, " \o Lower(t) \o " initiatives are evolving, with shared challenges leading to innovative solutions and strengthened international partnerships." >>
      [] OTHER -> <<
           "Recent developments in " \o c \o "'s " \o Lower(t) \o " sector indicate positive momentum, with measurable progress being reported across key areas.",
           "As " \o c \o " continues to implement strategic initiatives, " \o Lower(t) \o " shows promising growth and increasing regional influence." >>

developments == <<
    "Enhanced international cooperation agreements signed recently",
    "Economic indicators showing consistent upward trajectory",
    "Technological infrastructure expansion exceeding targets",
    "Policy reforms creating favorable investment conditions",
    "Educational and vocational training programs expanding",
    "Environmental sustainability projects gaining traction",
    "Cultural exchange programs strengthening global connections",
    "Healthcare system improvements benefiting communities" >>

headlines(c, t) == <<
    "Breaking News: " \o t \o " Developments in " \o c,
    c \o " Reports Significant " \o t \o " Progress",
    "Latest " \o t \o " Updates from " \o c,
    c \o "'s " \o t \o " Sector Shows Strong Growth",
    "International Focus: " \o t \o " in " \o c >>

source_map(c) ==
    CASE c = "Iraq" -> "Based on reports from Iraqi Ministry sources and regional economic analysts"
      [] c = "Syria" -> "Compiled from United Nations assessments and regional observer reports"
      [] c = "Kurdistan Region" -> "Sources include Kurdistan Regional Government reports and international development agencies"
      [] c = "Turkey" -> "Data from Turkish Statistical Institute and international economic monitoring groups"
      [] c = "Global" -> "Based on United Nations reports and international economic assessments"
      [] OTHER -> "Based on regional analysis and international monitoring reports"

\* The draws generate_ai_news makes: a template, a sample of four, a headline.
\* The model takes the three from one stream of the generator: stream r
\* yields the r-th outcome of each call, modulo the number of its outcomes.
Draw(r) == [summary |-> r % 2,
            sample |-> r % SampleCount(Len(developments), 4),
            headline |-> r % 5]
Draws == {Draw(r) : r \in 0..MaxRand}

\* generate_ai_news returning its headline instead of news_content
generate_ai_news_HeadlineOnly(c, t0, key, t, d) == Choice(headlines(c, t0), d.headline)

\* generate_ai_news(country, topic) with HF_API_KEY = key, at minute t, drawing d
generate_ai_news(c, t0, key, t, d) ==
    LET lt == Lower(t0)
        summary == Choice(country_templates(c, t0), d.summary)
        selected_developments == Sample(developments, 4, d.sample)
        headline == Choice(headlines(c, t0), d.headline)
        sources == source_map(c)
    IN  "HEADLINE: " \o headline \o "\n\n"
        \o "SUMMARY: " \o summary \o "\n\n"
        \o "KEY DEVELOPMENTS:\n"
        \o Bullet \o " " \o selected_developments[1] \o "\n"
        \o Bullet \o " " \o selected_developments[2] \o "\n"
        \o Bullet \o " " \o selected_developments[3] \o "\n"
        \o Bullet \o " " \o selected_developments[4] \o "\n\n"
        \o "CONTEXT: This analysis examines current " \o lt \o " conditions in " \o c
        \o ", providing insights into recent progress, ongoing challenges, and future prospects.\n\n"
        \o "REGIONAL IMPACT: Developments in " \o c
        \o " are influencing broader regional dynamics, with implications for international cooperation, economic development, and strategic partnerships.\n\n"
        \o "SOURCES: " \o sources \o "\n\n"
        \o "GENERATED: " \o Timestamp(t) \o "\n"
        \o "AI NEWS ASSISTANT | Country: " \o c \o " | Topic: " \o t0 \o " | Model: "
        \o (IF Truthy(key) THEN MODEL_NAME ELSE GeneratorModel)

-----------------------------------------------------------------------------
(* call_huggingface_router *)

\* the outcome of requests.post before any call was made
NotCalled == [kind |-> "none", status |-> 0, shape |-> "none", text |-> None]

\* the lengths of the texts a provider returns
ProviderLengths == {0} \cup ((MinLen - ExtraLen)..(MinLen + ExtraLen))

\* The outcomes of requests.post: a timeout, another exception, or an HTTP
\* response.  A 200 response carries a body that is not JSON ("invalid"), a
\* JSON object, an empty list, a list whose first element has a
\* 'generated_text' ("list_text"), or a list whose first element has none and
\* is turned into text by str() ("list_other").
HfOutcomes ==
    {[kind |-> k, status |-> 0, shape |-> "none", text |-> None] : k \in {"timeout", "error"}}
    \cup {[kind |-> "http", status |-> st, shape |-> "none", text |-> None] : st \in {422, 503, 429}}
    \cup {[kind |-> "http", status |-> 200, shape |-> sh, text |-> None] :
             sh \in {"invalid", "object", "empty_list"}}
    \cup {[kind |-> "http", status |-> 200, shape |-> "list_text", text |-> Rep("n", n)] :
             n \in ProviderLengths}
    \cup {[kind |-> "http", status |-> 200, shape |-> "list_other", text |-> Rep("d", n)] :
             n \in ProviderLengths \ {0}}

\* call_huggingface_router accepting a text of exactly the threshold length
call_huggingface_router_AtLeast(key, resp) ==
    IF ~Truthy(key) \/ resp.kind # "http" \/ resp.status # 200 THEN None
    ELSE IF resp.shape \in {"list_text", "list_other"}
              /\ Truthy(resp.text) /\ Len(resp.text) >= MinLen
         THEN resp.text
         ELSE None

\* call_huggingface_router(prompt) with HF_API_KEY = key, the POST ending in resp
call_huggingface_router(key, resp) ==
    IF ~Truthy(key) THEN None
    ELSE IF resp.kind # "http" THEN None
    ELSE IF resp.status = 200
         THEN IF resp.shape \in {"list_text", "list_other"}
              THEN LET generated_text == resp.text
                   IN  IF Truthy(generated_text) /\ Len(generated_text) > MinLen
                       THEN generated_text
                       ELSE None
              ELSE None
         ELSE None

-----------------------------------------------------------------------------
(* translate_text *)

NotTranslated == [kind |-> "none", status |-> 0, body |-> "none", sentences |-> << >>]

\* data[0] of the translation backend: a list of sentences, a sentence being a
\* list whose first element is the translated text (or null, or empty)
SentenceLists == {
    << >>,
    << <<None, "News">>, << >> >>,
    << <<"akhbar", "News">>, <<"">>, <<"jadida", "new">> >> }

\* The outcomes of requests.get: a timeout, another exception, or an HTTP
\* response; a 200 response carries a body that is not JSON ("invalid"), a
\* JSON list whose first element is null ("null"), or a list of sentences.
TrOutcomes ==
    {[kind |-> k, status |-> 0, body |-> "none", sentences |-> << >>] : k \in {"timeout", "error"}}
    \cup {[kind |-> "http", status |-> st, body |-> "none", sentences |-> << >>] : st \in {429, 500}}
    \cup {[kind |-> "http", status |-> 200, body |-> b, sentences |-> << >>] : b \in {"invalid", "null"}}
    \cup {[kind |-> "http", status |-> 200, body |-> "sentences", sentences |-> ss] : ss \in SentenceLists}

RECURSIVE translated_parts(_)
\* the loop over data[0]
translated_parts(sentences) ==
    IF sentences = << >> THEN << >>
    ELSE LET sentence == Head(sentences)
             translated_text == IF Len(sentence) > 0 /\ Truthy(sentence[1]) THEN sentence[1] ELSE ""
         IN  (IF translated_text # "" THEN <<translated_text>> ELSE << >>)
             \o translated_parts(Tail(sentences))

\* translate_text marking Arabic only
translate_text_ArOnly(text, target_language, resp) ==
    IF resp.kind # "http" \/ resp.status # 200 \/ resp.body # "sentences" THEN None
    ELSE LET parts == translated_parts(resp.sentences)
         IN  IF parts # << >>
             THEN IF target_language \in {"ar"}
                  THEN RLM \o Join(" ", parts)
                  ELSE Join(" ", parts)
             ELSE None

\* translate_text(text, target_language), the GET ending in resp.  The text
\* and the language code go into the query only; what comes back is resp.
translate_text(text, target_language, resp) ==
    IF resp.kind # "http" THEN None
    ELSE IF resp.status # 200 THEN None
    ELSE IF resp.body # "sentences" THEN None
    ELSE LET parts == translated_parts(resp.sentences)
         IN  IF parts # << >>
             THEN IF target_language \in {"ar", "ku"}
                  THEN RLM \o Join(" ", parts)
                  ELSE Join(" ", parts)
             ELSE None

-----------------------------------------------------------------------------
(* get_news *)

Keys == {"country", "topic", "original_language", "needs_translation"}
Countries == {"Iraq", "Mars"}
Topics == {"Technology"}
Languages == {"en", "ar", "ku", "fr"}

\* the fields a request carries: any of the four, the others left to their defaults
KeySets == SUBSET Keys

Restrict(f, K) == [k \in K |-> f[k]]

\* The requests: a body get_json() cannot parse, the JSON null, a non-empty
\* JSON array, or a JSON object with any subset of the four fields.
Requests ==
    {[body |-> b, fields |-> << >>] : b \in {"unparseable", "null", "array"}}
    \cup {[body |-> "object", fields |-> Restrict(f, K)] :
             f \in [country : Countries, topic : Topics,
                    original_language : Languages, needs_translation : BOOLEAN],
             K \in KeySets}

NoRequest == [body |-> "none", fields |-> << >>]
NoResponse == [status |-> 0]
NoResult == [success |-> FALSE]

\* `not data`
Falsy(req) == req.body = "null" \/ (req.body = "object" /\ DOMAIN req.fields = {})

\* return jsonify({'error': 'No data provided'}), 400
BadRequest == [status |-> 400, json |-> [error |-> "No data provided"]]

\* the except clause of get_news
ServerError == [status |-> 500, json |-> [error |-> "Failed to process request"]]

\* the test at line 303
NeedsFallback(content) == ~Truthy(content) \/ Len(content) < MinLen

\* ai_provider assigned the provider's name outside the else branch
ProviderLabel_Always(content) == HfProvider

\* ai_provider as lines 297 and 310 leave it
ProviderLabel(content) == IF NeedsFallback(content) THEN FallbackProvider ELSE HfProvider

\* the dict of lines 313-324
BuildResult(content, c, t, provider, key) ==
    [description |-> content, success |-> TRUE, language |-> "en", country |-> c,
     topic |-> t, translated_description |-> None, is_rtl |-> FALSE,
     ai_provider |-> provider, api_available |-> Truthy(key),
     model |-> IF Truthy(key) THEN MODEL_NAME ELSE GeneratorModel]

\* the test at line 327 without needs_translation
ShouldTranslate_AnyLanguage(needs, lang) == lang # "en"

\* the test at line 327
ShouldTranslate(needs, lang) == needs /\ lang # "en"

\* lines 330-333 with a failed translation failing the response
ApplyTranslation_FailMarks(res, translated_text, lang) ==
    IF Truthy(translated_text)
    THEN [res EXCEPT !.translated_description = translated_text,
                     !.is_rtl = IF lang \in {"ar", "ku"} THEN TRUE ELSE res.is_rtl]
    ELSE [res EXCEPT !.success = FALSE]

\* lines 330-333
ApplyTranslation(res, translated_text, lang) ==
    IF Truthy(translated_text)
    THEN [res EXCEPT !.translated_description = translated_text,
                     !.is_rtl = IF lang \in {"ar", "ku"} THEN TRUE ELSE res.is_rtl]
    ELSE res

\* what a request is identified by: country, topic and language
Fingerprint(c, t, l) == <<c, t, l>>
NoContent == [fp |-> << >>, text |-> None, at |-> 0]

Init ==
    /\ HF_API_KEY \in {None, "", "hf_token"}
    /\ now = 0
    /\ pc = "idle"
    /\ request = NoRequest
    /\ country = "" /\ topic = "" /\ original_language = "" /\ needs_translation = FALSE
    /\ ai_content = None /\ ai_provider = ""
    /\ result = NoResult
    /\ response = NoResponse
    /\ hfResp = NotCalled /\ trResp = NotTranslated
    /\ hfAttempts = 0 /\ fallbackCalls = 0 /\ trCalls = 0
    /\ lastContent = NoContent

\* lines 280-297: the request arrives, is parsed and its fields are read
Receive(req) ==
    /\ pc = "idle"
    /\ request' = req
    /\ hfResp' = NotCalled /\ trResp' = NotTranslated
    /\ hfAttempts' = 0 /\ fallbackCalls' = 0 /\ trCalls' = 0
    /\ result' = NoResult
    /\ IF req.body = "unparseable"
       THEN \* get_json() raises, the except clause answers
            /\ response' = ServerError /\ pc' = "done"
            /\ UNCHANGED <<country, topic, original_language, needs_translation,
                           ai_content, ai_provider, lastContent>>
       ELSE IF Falsy(req)
       THEN /\ response' = BadRequest /\ pc' = "done"
            /\ UNCHANGED <<country, topic, original_language, needs_translation,
                           ai_content, ai_provider, lastContent>>
       ELSE IF req.body = "array"
       THEN \* a list has no get(): AttributeError, the except clause answers
            /\ response' = ServerError /\ pc' = "done"
            /\ UNCHANGED <<country, topic, original_language, needs_translation,
                           ai_content, ai_provider, lastContent>>
       ELSE /\ country' = Get(req.fields, "country", "Global")
            /\ topic' = Get(req.fields, "topic", "Breaking News")
            /\ original_language' = Get(req.fields, "original_language", "en")
            /\ needs_translation' = Get(req.fields, "needs_translation", FALSE)
            /\ ai_content' = None
            /\ ai_provider' = FallbackProvider
            /\ response' = NoResponse
            /\ pc' = "provider"
            /\ lastContent' = IF lastContent.fp = Fingerprint(country', topic', original_language')
                          THEN lastContent ELSE NoContent
    /\ UNCHANGED <<HF_API_KEY, now>>

\* lines 299-300 with a key: one POST to the router
CallProvider(resp) ==
    /\ pc = "provider"
    /\ Truthy(HF_API_KEY)
    /\ hfResp' = resp
    /\ hfAttempts' = hfAttempts + 1
    /\ ai_content' = call_huggingface_router(HF_API_KEY, resp)
    /\ pc' = "select"
    /\ UNCHANGED <<HF_API_KEY, now, request, country, topic, original_language,
                   needs_translation, ai_provider, result, response, trResp,
                   fallbackCalls, trCalls, lastContent>>

\* line 299 without a key: no call
SkipProvider ==
    /\ pc = "provider"
    /\ ~Truthy(HF_API_KEY)
    /\ pc' = "select"
    /\ UNCHANGED <<HF_API_KEY, now, request, country, topic, original_language,
                   needs_translation, ai_content, ai_provider, result, response,
                   hfResp, trResp, hfAttempts, fallbackCalls, trCalls, lastContent>>

\* lines 303-308 and 313-324: the generator's content is used
Fallback(d) ==
    /\ pc = "select"
    /\ NeedsFallback(ai_content)
    /\ ai_content' = generate_ai_news(country, topic, HF_API_KEY, now, d)
    /\ fallbackCalls' = fallbackCalls + 1
    /\ ai_provider' = ProviderLabel(ai_content)
    /\ result' = BuildResult(ai_content', country, topic, ai_provider', HF_API_KEY)
    /\ lastContent' = [fp |-> Fingerprint(country, topic, original_language),
                   text |-> ai_content', at |-> now]
    /\ pc' = "translate"
    /\ UNCHANGED <<HF_API_KEY, now, request, country, topic, original_language,
                   needs_translation, response, hfResp, trResp, hfAttempts, trCalls>>

\* lines 309-311 and 313-324: the provider's content is used
AcceptProvider ==
    /\ pc = "select"
    /\ ~NeedsFallback(ai_content)
    /\ ai_provider' = ProviderLabel(ai_content)
    /\ result' = BuildResult(ai_content, country, topic, ai_provider', HF_API_KEY)
    /\ lastContent' = [fp |-> Fingerprint(country, topic, original_language),
                   text |-> ai_content, at |-> now]
    /\ pc' = "translate"
    /\ UNCHANGED <<HF_API_KEY, now, request, country, topic, original_language,
                   needs_translation, ai_content, response, hfResp, trResp,
                   hfAttempts, fallbackCalls, trCalls>>

\* lines 327-337 when a translation is asked for: one GET, then the response
Translate(resp) ==
    /\ pc = "translate"
    /\ ShouldTranslate(needs_translation, original_language)
    /\ trResp' = resp
    /\ trCalls' = trCalls + 1
    /\ result' = ApplyTranslation(result, translate_text(ai_content, original_language, resp),
                                  original_language)
    /\ response' = [status |-> 200, json |-> result']
    /\ pc' = "done"
    /\ UNCHANGED <<HF_API_KEY, now, request, country, topic, original_language,
                   needs_translation, ai_content, ai_provider, hfResp, hfAttempts,
                   fallbackCalls, lastContent>>

\* lines 327 and 336-337 when no translation is asked for: the response
SkipTranslate ==
    /\ pc = "translate"
    /\ ~ShouldTranslate(needs_translation, original_language)
    /\ response' = [status |-> 200, json |-> result]
    /\ pc' = "done"
    /\ UNCHANGED <<HF_API_KEY, now, request, country, topic, original_language,
                   needs_translation, ai_content, ai_provider, result, hfResp, trResp,
                   hfAttempts, fallbackCalls, trCalls, lastContent>>

\* the handler has returned: its locals and the response are gone
Finish ==
    /\ pc = "done"
    /\ pc' = "idle"
    /\ request' = NoRequest
    /\ country' = "" /\ topic' = "" /\ original_language' = "" /\ needs_translation' = FALSE
    /\ ai_content' = None /\ ai_provider' = ""
    /\ result' = NoResult
    /\ response' = NoResponse
    /\ hfResp' = NotCalled /\ trResp' = NotTranslated
    /\ hfAttempts' = 0 /\ fallbackCalls' = 0 /\ trCalls' = 0
    /\ UNCHANGED <<HF_API_KEY, now, lastContent>>

\* a minute passes between two requests
Tick ==
    /\ pc = "idle"
    /\ now < MaxClock
    /\ now' = now + 1
    /\ UNCHANGED <<HF_API_KEY, pc, request, country, topic, original_language,
                   needs_translation, ai_content, ai_provider, result, response,
                   hfResp, trResp, hfAttempts, fallbackCalls, trCalls, lastContent>>

Next ==
    \/ \E req \in Requests : Receive(req)
    \/ \E resp \in HfOutcomes : CallProvider(resp)
    \/ SkipProvider
    \/ \E d \in Draws : Fallback(d)
    \/ AcceptProvider
    \/ \E resp \in TrOutcomes : Translate(resp)
    \/ SkipTranslate
    \/ Finish
    \/ Tick

Spec == Init /\ [][Next]_vars

-----------------------------------------------------------------------------
(* What the claims speak of *)

\* the TTL of the response cache the design describes, in minutes
CacheTTL == 30

\* the request's fields, with the documented defaults
ReqCountry == Get(request.fields, "country", "Global")
ReqTopic == Get(request.fields, "topic", "Breaking News")
ReqLanguage == Get(request.fields, "original_language", "en")
ReqNeeds == Get(request.fields, "needs_translation", FALSE)

\* the handler has answered
Done == pc = "done"

\* the request is a JSON object that carries at least one field
Parsed == request.body = "object" /\ DOMAIN request.fields # {}

\* the provider call ended in Success: HTTP 200 and a text longer than 100
HfSuccess(resp) ==
    /\ resp.kind = "http" /\ resp.status = 200
    /\ resp.shape \in {"list_text", "list_other"}
    /\ Len(resp.text) > 100

\* the provider call ended in a transient failure
HfTransient(resp) ==
    \/ resp.kind = "timeout"
    \/ resp.kind = "http" /\ resp.status \in {429, 503}

\* the translation call ended with a usable translation
TrSuccess(resp) ==
    /\ resp.kind = "http" /\ resp.status = 200 /\ resp.body = "sentences"
    /\ \E i \in 1..Len(resp.sentences) :
          /\ Len(resp.sentences[i]) > 0
          /\ resp.sentences[i][1] \notin {None, ""}

-----------------------------------------------------------------------------
(* The claims *)

C2_FallbackIdentity ==
    (Done /\ Parsed /\ (~Truthy(HF_API_KEY) \/ ~HfSuccess(hfResp))) =>
        /\ response.status = 200
        /\ response.json.ai_provider = "AI News Generator"
        /\ response.json.success = TRUE

\* the provider answered 503 and the response names the generator
C2_Witness ==
    /\ Done /\ Parsed /\ hfAttempts = 1
    /\ hfResp.kind = "http" /\ hfResp.status = 503
    /\ response.status = 200
    /\ response.json.ai_provider = "AI News Generator"
    /\ response.json.success = TRUE

\* C3: a request for a fingerprint served within the TTL gets the description
\* served before, without any call to the provider.
C3_RepeatServedFromCache ==
    [][(/\ pc = "select" /\ pc' = "translate"
        /\ lastContent.fp = Fingerprint(ReqCountry, ReqTopic, ReqLanguage)
        /\ now - lastContent.at < CacheTTL)
       => (result'.description = lastContent.text /\ hfAttempts = 0)]_vars

\* C4: a request with needs_translation true and original_language "ar" or
\* "ku" is answered with is_rtl true, also when no translation came back.
C4_RtlFlagFollowsLanguage ==
    (Done /\ response.status = 200 /\ ReqNeeds /\ ReqLanguage \in {"ar", "ku"}) =>
        response.json.is_rtl = TRUE

\* C5: when the translation call fails, the response is still the success
\* response, its description is the content that was selected, and only
\* translated_description is left null.
C5_TranslationFailureIsolated ==
    (Done /\ trCalls > 0 /\ ~TrSuccess(trResp)) =>
        /\ response.status = 200
        /\ response.json.success = TRUE
        /\ response.json.description = lastContent.text
        /\ response.json.description # ""
        /\ response.json.translated_description = None

\* the translation backend answered 500 and the response is the success response
C5_Witness ==
    /\ Done /\ trCalls = 1
    /\ trResp.kind = "http" /\ trResp.status = 500
    /\ response.status = 200 /\ response.json.success = TRUE
    /\ response.json.translated_description = None
    /\ Len(response.json.description) > 0

\* C6: a JSON object, also one that leaves fields to their defaults, is
\* answered with the success response; any other body is answered with 400
\* and an error field.
C6_FailureOnlyForMalformed ==
    Done =>
        IF request.body = "object"
        THEN response.status = 200 /\ response.json.success = TRUE
        ELSE response.status = 400 /\ "error" \in DOMAIN response.json

\* C7: without needs_translation the response has no translated_description,
\* and the translator is called only if needs_translation is true and
\* original_language is not "en".
C7_TranslateOnlyWhenAsked ==
    /\ trCalls > 0 => (ReqNeeds /\ ReqLanguage # "en")
    /\ (Done /\ response.status = 200 /\ ~ReqNeeds) =>
           response.json.translated_description = None

\* Arabic without needs_translation: no call, no translation
C7_Witness ==
    /\ Done /\ response.status = 200
    /\ ~ReqNeeds /\ ReqLanguage = "ar"
    /\ trCalls = 0
    /\ response.json.translated_description = None

\* C8: a translated_description for "ar" or "ku" begins with the
\* right-to-left mark and comes with is_rtl true; for another language it
\* has no mark and is_rtl is false.
C8_MarkerMatchesDirection ==
    (Done /\ response.status = 200 /\ response.json.translated_description # None) =>
        IF ReqLanguage \in {"ar", "ku"}
        THEN /\ StartsWith(response.json.translated_description, RLM)
             /\ response.json.is_rtl = TRUE
        ELSE /\ ~StartsWith(response.json.translated_description, RLM)
             /\ response.json.is_rtl = FALSE

\* a Kurdish translation came back marked
C8_Witness ==
    /\ Done /\ response.status = 200 /\ ReqLanguage = "ku"
    /\ response.json.translated_description # None
    /\ StartsWith(response.json.translated_description, RLM)
    /\ response.json.is_rtl = TRUE

\* C9: when the handler leaves the provider after a transient failure, it has
\* made max_retries + 1 attempts.
C9_TransientRetried ==
    (pc = "select" /\ hfAttempts > 0 /\ HfTransient(hfResp)) =>
        hfAttempts = max_retries + 1

\* C10: after a provider Success the description is the provider's text, the
\* provider is named and the generator was not called; the generator is
\* called exactly when there was no Success, and once; a provider text of at
\* most 100 characters is never the description.
C10_OneAuthoritativeContent ==
    (Done /\ response.status = 200) =>
        /\ HfSuccess(hfResp) =>
              /\ response.json.description = hfResp.text
              /\ response.json.ai_provider = "OpenAI gpt-oss-120b"
              /\ fallbackCalls = 0
        /\ ~HfSuccess(hfResp) => fallbackCalls = 1
        /\ (hfResp.kind = "http" /\ hfResp.text # None /\ Len(hfResp.text) <= 100) =>
              response.json.description # hfResp.text
        /\ response.json.description = lastContent.text

\* the provider's text of 101 characters was returned
C10_Witness ==
    /\ Done /\ response.status = 200
    /\ HfSuccess(hfResp) /\ Len(hfResp.text) = 101
    /\ response.json.description = hfResp.text
    /\ response.json.ai_provider = "OpenAI gpt-oss-120b"
    /\ fallbackCalls = 0

====
